---- MODULE Spec2Model ----
(***************************************************************************)
(* Model of evolving_rl/evolution.py: the regularized-evolution controller *)
(* CGSRegularizedEvolution (setup / propose / feedback), its population of *)
(* _Individual objects, and the DAGPointMutator with its duplicate tracker *)
(* output_dict.                                                            *)
(*                                                                         *)
(* Node and operator indices are 0-based as in the Python source; TLA+     *)
(* sequences are 1-based, so At(s, i) reads s[i] of the source.            *)
(***************************************************************************)
EXTENDS Integers, Sequences, FiniteSets, TLC

VARIABLES
  phase,               \* "constructed" | "ready" | "failed" (setup asserted)
  population_size,     \* pg member of CGSRegularizedEvolution
  tournament_size,     \* pg member of CGSRegularizedEvolution
  input_nodes,         \* pg member of DAGPointMutator: odtype of each input
  program_length,      \* mutator.program_length: number of non-input nodes
  num_freeze_ops,      \* pg member of DAGPointMutator
  adjust_loss_weight,  \* mutator.adjust_loss_weight
  population,          \* self._population, oldest first
  output_dict,         \* mutator.output_dict: fingerprint -> reward
  pc,                  \* "idle" | "mutate": inside the while-loop of mutate()
  parent,              \* the dna handed to mutate() (NoDNA outside mutate)
  ret,                 \* what the last propose() returned (NoDNA: nothing)
  call,                \* record describing the last completed call
  nfeedback,           \* ghost: number of feedback() calls so far
  ncreated,            \* ghost: number of _Individual objects created so far
  fed_first,           \* ghost: fingerprint -> reward of the first feedback() with it
  fed_last,            \* ghost: fingerprint -> reward of the latest feedback() with it
  alternating,         \* ghost: every call so far was a propose() that returned
                       \* or the feedback() of its dna with a reward, in turn
  retries              \* passes of the mutate() loop rejected so far, modulo MaxRetries + 1

vars == << phase, population_size, tournament_size, input_nodes,
           program_length, num_freeze_ops, adjust_loss_weight, population,
           output_dict, pc, parent, ret, call, nfeedback, ncreated,
           fed_first, fed_last, alternating, retries >>

----------------------------------------------------------------------------
(* Bounds of the model. *)

MaxPopulation == 3
MaxTournament == 3
MaxFeedback == 4
MaxRetries == 2
MaxMissing == 1

(* Python's None as a reward (a value outside Rewards and the defaults),   *)
(* the absence of a dna, and self._population before setup() assigns it.   *)
None == 0 - 1
NoDNA == << >>
Unset == << "unset" >>

(* The rewards the evaluator reports. *)
Rewards == {1, 2}

At(s, i) == s[i + 1]

----------------------------------------------------------------------------
(* The symbolic program representation (ops, program, program_search). *)

F == "float"
B == "bool"

(* self.operators: the operator catalogue; LossOpNode is its last entry. *)
operators == << "Neg", "Cast", "LossOpNode" >>

LossOpIdx == Len(operators) - 1

(* ProgramSpec defaults for the members mutate() and the sampler leave out. *)
DefaultLossWeight == 1
DefaultHashOutput == 0

(* loss_program.ops_lst[-1].loss_weights *)
loss_weights == {1, 2}

(* Node.initialize_random_input: the fixed batch drawn for input node i,   *)
(* summarised by the value it contributes to a program's output.           *)
random_inputs(i) == i + 1

(* Number of inputs an operator class takes. *)
OpArity(op_idx) == 1

(* op_cls.precheck_valid_input(input_ops): every operator of the catalogue *)
(* takes float inputs only.                                                *)
precheck_valid_input(op_idx, input_dtypes) ==
  /\ Len(input_dtypes) = OpArity(op_idx)
  /\ \A k \in 1..Len(input_dtypes) : input_dtypes[k] = F

(* new_op.odtype of op_cls(input_idxs, input_dtypes). *)
OpOdtype(op_idx, input_dtypes) ==
  IF At(operators, op_idx) = "Cast" THEN B ELSE F

(* get_possible_input_idxs(op_cls, range(n)): the index tuples of the      *)
(* operator's arity over 0..n-1.                                           *)
get_possible_input_idxs(op_idx, n) == { << i >> : i \in 0..(n - 1) }

(* ops_lst of the program built from program_lst: the odtype of every node *)
(* (input nodes first), "?" for a node whose inputs are not earlier nodes. *)
RECURSIVE Odtypes(_, _)
Odtypes(program_lst, k) ==
  IF k = 0 THEN input_nodes
  ELSE LET prev == Odtypes(program_lst, k - 1)
           e == program_lst[k]
           ok == \A j \in 1..Len(e[2]) : e[2][j] \in 0..(Len(prev) - 1)
       IN Append(prev,
                 IF ok THEN OpOdtype(e[1], [j \in 1..Len(e[2]) |-> At(prev, e[2][j])])
                 ELSE "?")

(* loss_program.ops_lst as records, input nodes included. *)
ops_lst(program_lst) ==
  LET n == Len(input_nodes)
      dt == Odtypes(program_lst, Len(program_lst))
  IN [i \in 1..(n + Len(program_lst)) |->
        IF i <= n THEN [op |-> "Input", input_idxs |-> << >>, odtype |-> dt[i]]
        ELSE [op |-> At(operators, program_lst[i - n][1]),
              input_idxs |-> program_lst[i - n][2],
              odtype |-> dt[i]]]

(* Whether node `node` reads, directly or through other nodes, node `src`. *)
RECURSIVE DependsOn(_, _, _)
DependsOn(ops, node, src) ==
  \/ node = src
  \/ \E j \in 1..Len(At(ops, node).input_idxs) :
        LET i == At(ops, node).input_idxs[j]
        IN i < node /\ DependsOn(ops, i, src)

(* loss_program.find_leaf_nodes(): nodes no other node reads. *)
find_leaf_nodes(ops) ==
  { i \in 0..(Len(ops) - 1) :
      \A m \in 0..(Len(ops) - 1) :
        \A j \in 1..Len(At(ops, m).input_idxs) : At(ops, m).input_idxs[j] # i }

(* The validity flag of build_program: every node reads earlier nodes and  *)
(* passes its operator's precheck, the loss operator is the last node and  *)
(* only the last node, and the loss depends on the last input node.        *)
build_program_valid(program_lst) ==
  LET ops == ops_lst(program_lst)
      n == Len(input_nodes)
  IN /\ Len(program_lst) >= 1
     /\ \A k \in 1..Len(program_lst) :
          LET e == program_lst[k]
          IN /\ e[1] \in 0..LossOpIdx
             /\ (e[1] = LossOpIdx) <=> (k = Len(program_lst))
             /\ \A j \in 1..Len(e[2]) : e[2][j] \in 0..(n + k - 2)
             /\ precheck_valid_input(
                  e[1], [j \in 1..Len(e[2]) |-> At(ops, e[2][j]).odtype])
     /\ DependsOn(ops, Len(ops) - 1, n - 1)

(* The value the built program computes on self.random_inputs: what the    *)
(* output of the program call sums to.                                     *)
RECURSIVE NodeValue(_, _, _)
NodeValue(ops, loss_weight, node) ==
  LET o == At(ops, node)
  IN IF o.op = "Input" THEN random_inputs(node)
     ELSE LET x == NodeValue(ops, loss_weight, o.input_idxs[1])
          IN CASE o.op = "Neg" -> 0 - x
               [] o.op = "Cast" -> IF x > 0 THEN 1 ELSE 0
               [] OTHER -> loss_weight * x

(* build_program(input_nodes, program_spec, operators, 0): the compiled    *)
(* program and its validity flag.                                          *)
build_program(program_spec) ==
  [ops_lst |-> ops_lst(program_spec.program_lst),
   loss_weight |-> program_spec.loss_weight,
   valid |-> build_program_valid(program_spec.program_lst)]

(* ProgramSpec(...) with the defaults for the members left out. *)
ProgramSpec(program_lst, duplicate, reward, loss_weight, hash_output) ==
  [program_lst |-> program_lst, duplicate |-> duplicate, reward |-> reward,
   loss_weight |-> loss_weight, hash_output |-> hash_output]

(* template.encode / template.decode: the genome is the flat list of the   *)
(* spec's members in declaration order, hash_output last.                  *)
encode(program_spec) ==
  << program_spec.program_lst, program_spec.duplicate, program_spec.reward,
     program_spec.loss_weight, program_spec.hash_output >>

decode(dna) ==
  [program_lst |-> dna[1], duplicate |-> dna[2], reward |-> dna[3],
   loss_weight |-> dna[4], hash_output |-> dna[5]]

(* All program lists of the search space, valid or not. *)
ProgramLsts ==
  LET n == Len(input_nodes)
  IN { pl \in [1..program_length ->
                 { << o, idxs >> : o \in 0..LossOpIdx,
                     idxs \in get_possible_input_idxs(0, n + program_length - 1) }] :
         \A k \in 1..program_length : pl[k][2][1] < n + k - 1 }

(* sample_valid_program_spec(...): any structurally valid spec; the loss   *)
(* weight is sampled only when adjust_loss_weight is set.                  *)
sample_valid_program_spec ==
  { ProgramSpec(pl, FALSE, 0, lw, DefaultHashOutput) :
      pl \in { q \in ProgramLsts : build_program_valid(q) },
      lw \in IF adjust_loss_weight THEN loss_weights ELSE {DefaultLossWeight} }

----------------------------------------------------------------------------
(* DAGPointMutator *)

(* mutation_probability (default 0.8) and the outcomes of random.random(), *)
(* both in hundredths.                                                     *)
mutation_probability == 80
RandomDraws == {0, 99}

(* self.rand_float = np.random.uniform(): one draw of [0, 1). *)
rand_float == 0

(* np.finfo(np.float32).max, cut to the integers of the model. *)
F32Max == 2147483647

(* The summed output of a program as a Python float: finite, nan or inf.   *)
ProgramOutput(program) ==
  [kind |-> "finite",
   v |-> NodeValue(program.ops_lst, program.loss_weight, Len(program.ops_lst) - 1)]

(* _compute_hash_output: the rounded sum, replaced by rand_float when it   *)
(* is nan or inf, clipped to the float32 range.                            *)
compute_hash_output(program) ==
  LET output == ProgramOutput(program)
      output_str == IF output.kind \in {"nan", "inf"} THEN rand_float ELSE output.v
  IN IF output_str < 0 - F32Max THEN 0 - F32Max
     ELSE IF output_str > F32Max THEN F32Max
     ELSE output_str

(* Variants of _check_duplicate: one that records the fingerprint it looks *)
(* up, and one that never reads the recorded reward.                       *)
check_duplicate_recording(program, dict) ==
  LET h == compute_hash_output(program)
  IN IF h \in DOMAIN dict
     THEN [hash |-> h, duplicate |-> TRUE, reward |-> dict[h], output_dict |-> dict]
     ELSE [hash |-> h, duplicate |-> FALSE, reward |-> 0,
           output_dict |-> [k \in (DOMAIN dict) \cup {h} |->
                              IF k = h THEN 0 ELSE dict[k]]]

check_duplicate_unread(program, dict) ==
  LET h == compute_hash_output(program)
  IN [hash |-> h, duplicate |-> h \in DOMAIN dict, reward |-> 0, output_dict |-> dict]

(* _check_duplicate: (output_str, duplicate, reward), and the mapping as   *)
(* the lookup leaves it.                                                   *)
check_duplicate(program, dict) ==
  LET output_str == compute_hash_output(program)
  IN IF output_str \in DOMAIN dict
     THEN [hash |-> output_str, duplicate |-> TRUE, reward |-> dict[output_str],
           output_dict |-> dict]
     ELSE [hash |-> output_str, duplicate |-> FALSE, reward |-> 0,
           output_dict |-> dict]

(* dna.to_json(compact=True)['value'][-1]: the last value of the genome. *)
EmbeddedHash(dna) == dna[Len(dna)]

(* Variant of update_output_dict that keeps the first reward recorded. *)
update_keep_first(dict, dna, reward) ==
  LET h == dna[Len(dna)]
  IN IF h \in DOMAIN dict THEN dict
     ELSE [k \in (DOMAIN dict) \cup {h} |-> IF k = h THEN reward ELSE dict[k]]

(* update_output_dict: self.output_dict[output_str] = reward. *)
update_output_dict(dict, dna, reward) ==
  LET output_str == EmbeddedHash(dna)
  IN [k \in (DOMAIN dict) \cup {output_str} |->
        IF k = output_str THEN reward ELSE dict[k]]

(* s[:k] of Python, k possibly negative. *)
PyPrefix(s, k) ==
  LET m == IF k >= 0 THEN (IF k < Len(s) THEN k ELSE Len(s))
           ELSE (IF Len(s) + k > 0 THEN Len(s) + k ELSE 0)
  IN SubSeq(s, 1, m)

(* Variant of _sample_node_idx_to_mutate that ignores num_freeze_ops. *)
sample_node_idx_unfrozen(loss_program) ==
  LET hi == Len(loss_program.ops_lst) - 1
      idxs == Len(input_nodes)..hi
  IN IF adjust_loss_weight THEN idxs ELSE idxs \ {hi}

(* _sample_node_idx_to_mutate: the node indices random.choice may return;  *)
(* empty when del idxs[-1] or random.choice raise IndexError.              *)
sample_node_idx_to_mutate(loss_program) ==
  LET lo == Len(input_nodes) + num_freeze_ops
      hi == Len(loss_program.ops_lst) - 1
      idxs == lo..hi
  IN IF adjust_loss_weight THEN idxs ELSE idxs \ {hi}

(* Variant of _alter_continuous whose weights are not the listed ones. *)
alter_continuous_unlisted(program_lst, loss_program) ==
  { ProgramSpec(program_lst, FALSE, 0, lw + Cardinality(loss_weights), DefaultHashOutput) :
      lw \in loss_weights }

(* _alter_continuous: the same program_lst with a loss weight chosen among *)
(* the loss node's loss_weights.                                           *)
alter_continuous(program_lst, loss_program) ==
  { ProgramSpec(program_lst, FALSE, 0, lw, DefaultHashOutput) : lw \in loss_weights }

(* Variant of valid_lst without the comparison of output dtypes. *)
valid_lst_untyped(loss_program, node_idx) ==
  LET ops == loss_program.ops_lst
      all_inputs == PyPrefix(ops, node_idx - 1)
      possible_ops == (0..(Len(operators) - 1)) \ {LossOpIdx}
  IN { c \in UNION { { << op_idx, input_idxs >> :
                         input_idxs \in get_possible_input_idxs(op_idx, Len(all_inputs)) } :
                     op_idx \in possible_ops } :
         precheck_valid_input(
           c[1], [j \in 1..Len(c[2]) |-> At(all_inputs, c[2][j]).odtype]) }

(* valid_lst of _alter_node_idx for the target node_idx. *)
valid_lst(loss_program, node_idx) ==
  LET ops == loss_program.ops_lst
      op_to_replace == At(ops, node_idx)
      is_leaf == node_idx \in find_leaf_nodes(ops)
      all_inputs == PyPrefix(ops, node_idx - 1)
      possible_ops == (0..(Len(operators) - 1)) \ {LossOpIdx}
  IN { c \in UNION { { << op_idx, input_idxs >> :
                         input_idxs \in get_possible_input_idxs(op_idx, Len(all_inputs)) } :
                     op_idx \in possible_ops } :
         LET input_dtypes ==
               [j \in 1..Len(c[2]) |-> At(all_inputs, c[2][j]).odtype]
         IN /\ precheck_valid_input(c[1], input_dtypes)
            /\ (is_leaf \/ OpOdtype(c[1], input_dtypes) = op_to_replace.odtype) }

(* Variant of _alter_node_idx that keeps the old pair when valid_lst is     *)
(* empty.                                                                  *)
alter_node_idx_keep(program_lst, loss_program, node_idx) ==
  IF At(loss_program.ops_lst, node_idx).op = "LossOpNode"
  THEN alter_continuous(program_lst, loss_program)
  ELSE { ProgramSpec(
           [i \in 1..Len(program_lst) |->
              IF i - 1 = node_idx - Len(input_nodes) THEN c ELSE program_lst[i]],
           FALSE, 0, DefaultLossWeight, DefaultHashOutput) :
         c \in IF valid_lst(loss_program, node_idx) = {}
               THEN { program_lst[node_idx - Len(input_nodes) + 1] }
               ELSE valid_lst(loss_program, node_idx) }

(* _alter_node_idx for one sampled target: the specs it may return; empty  *)
(* when random.choice(valid_lst) raises IndexError.                        *)
alter_node_idx_at(program_lst, loss_program, node_idx) ==
  LET n_idx == node_idx - Len(input_nodes)
  IN IF At(loss_program.ops_lst, node_idx).op = "LossOpNode"
     THEN alter_continuous(program_lst, loss_program)
     ELSE { ProgramSpec(
              [i \in 1..Len(program_lst) |->
                 IF i - 1 = n_idx THEN c ELSE program_lst[i]],
              FALSE, 0, DefaultLossWeight, DefaultHashOutput) :
            c \in valid_lst(loss_program, node_idx) }

----------------------------------------------------------------------------
(* CGSRegularizedEvolution *)

(* Variant of the constructor's assertion that accepts a missing reward. *)
IndividualAssertOff(reward) == TRUE

(* _Individual.__init__: assert reward is not None. *)
IndividualAssert(reward) == reward # None

(* _Individual(dna, reward); born is a ghost field, the ordinal of the     *)
(* object among the individuals created.                                   *)
Individual(dna, reward, born) == [dna |-> dna, reward |-> reward, born |-> born]

(* Variants of the eviction loop: none at all, one that pops twice, and    *)
(* one that removes the lowest reward instead of the oldest.               *)
PopNothing(pop, size) == pop

PopTwice(pop, size) ==
  IF Len(pop) > size THEN SubSeq(pop, 3, Len(pop)) ELSE pop

PopLowestReward(pop, size) ==
  IF Len(pop) > size
  THEN LET i == CHOOSE k \in 1..Len(pop) :
                  \A j \in 1..Len(pop) : pop[k].reward <= pop[j].reward
       IN SubSeq(pop, 1, i - 1) \o SubSeq(pop, i + 1, Len(pop))
  ELSE pop

(* while len(self._population) > self.population_size: popleft() *)
RECURSIVE PopOldest(_, _)
PopOldest(pop, size) ==
  IF Len(pop) > size THEN PopOldest(Tail(pop), size) ELSE pop

(* The record kept of the last call and of what it did. *)
Call(op, path, tournament, selected, mutator, error) ==
  [op |-> op, path |-> path, tournament |-> tournament, selected |-> selected,
   mutator |-> mutator, error |-> error, node_idx |-> 0 - 1,
   dna |-> NoDNA, reward |-> None, checked |-> << >>]

(* The ghost variables only feedback() advances. *)
ghosts == << nfeedback, ncreated, fed_first, fed_last >>

config == << population_size, tournament_size, input_nodes, program_length,
             num_freeze_ops, adjust_loss_weight >>

(* The object as constructed: pg.members checked, _on_bound run, setup()   *)
(* not yet called.                                                         *)
Constructed ==
  /\ phase = "constructed"
  /\ population = Unset
  /\ output_dict = << >>
  /\ pc = "idle"
  /\ parent = NoDNA
  /\ ret = NoDNA
  /\ call = Call("none", "-", {}, 0, FALSE, "-")
  /\ nfeedback = 0
  /\ ncreated = 0
  /\ fed_first = << >>
  /\ fed_last = << >>
  /\ alternating = TRUE
  /\ retries = 0

(* The configurations explored: every population and tournament size over *)
(* the search space of the loss node alone, and the smallest population    *)
(* over a search space with one operator slot before the loss node.        *)
InitLossOnly ==
  /\ population_size \in 2..MaxPopulation
  /\ tournament_size \in 1..MaxTournament
  /\ input_nodes = << F >>
  /\ program_length = 1
  /\ num_freeze_ops = 0
  /\ adjust_loss_weight \in BOOLEAN

InitOneSlot ==
  /\ population_size = 2
  /\ tournament_size = 2
  /\ input_nodes = << F, F >>
  /\ program_length = 2
  /\ num_freeze_ops \in {0, 1}
  /\ adjust_loss_weight = FALSE

Init ==
  /\ InitLossOnly \/ InitOneSlot
  /\ Constructed

(* Variant of setup() without the assertion on population_size. *)
SetupUnchecked ==
  /\ phase = "constructed"
  /\ IF tournament_size >= 2
     THEN /\ phase' = "ready"
          /\ population' = << >>
          /\ call' = Call("setup", "-", {}, 0, FALSE, "-")
     ELSE /\ phase' = "failed"
          /\ population' = population
          /\ call' = Call("setup", "-", {}, 0, FALSE, "AssertionError")
  /\ UNCHANGED << config, ghosts, alternating, output_dict, pc, parent, ret, retries >>

(* setup(): the two assertions, then the empty deque. *)
Setup ==
  /\ phase = "constructed"
  /\ IF tournament_size >= 2 /\ population_size >= tournament_size
     THEN /\ phase' = "ready"
          /\ population' = << >>
          /\ call' = Call("setup", "-", {}, 0, FALSE, "-")
     ELSE /\ phase' = "failed"
          /\ population' = population
          /\ call' = Call("setup", "-", {}, 0, FALSE, "AssertionError")
  /\ UNCHANGED << config, ghosts, alternating, output_dict, pc, parent, ret, retries >>

(* feedback(dna, reward): record in the tracker, append the individual     *)
(* (its constructor asserts the reward), evict the oldest.                 *)
Feedback(dna, reward) ==
  /\ phase = "ready"
  /\ pc = "idle"
  /\ nfeedback < MaxFeedback
  /\ reward = None => nfeedback - ncreated < MaxMissing
  /\ nfeedback' = nfeedback + 1
  /\ LET h == EmbeddedHash(dna)
         e == reward
     IN /\ fed_first' = IF h \in DOMAIN fed_first THEN fed_first
                        ELSE [k \in (DOMAIN fed_first) \cup {h} |->
                                IF k = h THEN e ELSE fed_first[k]]
        /\ fed_last' = [k \in (DOMAIN fed_last) \cup {h} |->
                          IF k = h THEN e ELSE fed_last[k]]
  /\ alternating' = (alternating /\ call.op = "propose" /\ reward # None)
  /\ output_dict' = update_output_dict(output_dict, dna, reward)
  /\ IF IndividualAssert(reward)
     THEN /\ population' =
               PopOldest(Append(population, Individual(dna, reward, ncreated + 1)),
                         population_size)
          /\ ncreated' = ncreated + 1
          /\ call' = [Call("feedback", "-", {}, 0, FALSE, "-")
                        EXCEPT !.dna = dna, !.reward = reward]
     ELSE /\ population' = population
          /\ ncreated' = ncreated
          /\ call' = [Call("feedback", "-", {}, 0, FALSE, "AssertionError")
                        EXCEPT !.dna = dna, !.reward = reward]
  /\ parent' = NoDNA
  /\ UNCHANGED << phase, config, pc, ret, retries >>

(* The driver holds one proposal at a time: it calls propose() after       *)
(* setup(), after a feedback(), or again after a propose() that raised.    *)
(* propose() reads the configuration, the population and the tracker only, *)
(* so a proposal the driver drops without feedback leads to no new state.  *)
MayPropose ==
  /\ phase = "ready"
  /\ pc = "idle"
  /\ call.op = "propose" => call.error # "-"

(* Variant of propose() that still samples afresh at full population. *)
ProposeWarmupAtCapacity ==
  /\ MayPropose
  /\ Len(population) <= population_size
  /\ \E program_spec \in sample_valid_program_spec :
       ret' = encode(program_spec)
  /\ call' = Call("propose", "fresh", {}, 0, FALSE, "-")
  /\ parent' = NoDNA
  /\ alternating' = (alternating /\ call.op # "propose")
  /\ UNCHANGED << phase, config, population, output_dict, pc, ghosts, retries >>

(* propose() while the population is not full: a fresh valid sample. *)
ProposeWarmup ==
  /\ MayPropose
  /\ Len(population) < population_size
  /\ \E program_spec \in sample_valid_program_spec :
       ret' = encode(program_spec)
  /\ call' = Call("propose", "fresh", {}, 0, FALSE, "-")
  /\ parent' = NoDNA
  /\ alternating' = (alternating /\ call.op # "propose")
  /\ UNCHANGED << phase, config, population, output_dict, pc, ghosts, retries >>

(* The samples self._random.sample(population, tournament_size) may draw,  *)
(* as sets of positions.                                                   *)
TournamentSamples(pop, size) ==
  { S \in SUBSET (1..Len(pop)) : Cardinality(S) = size }

(* Variant of the selection that takes any sampled position. *)
SelectedAny(pop, tournament) == tournament

(* max(tournament, key=reward): any sampled position of maximum reward     *)
(* (the sample order, which breaks ties, is random).                       *)
Selected(pop, tournament) ==
  { i \in tournament : \A j \in tournament : pop[j].reward <= pop[i].reward }

(* propose() with a full population: tournament, clone of the winner, and  *)
(* mutate() up to its choice between point mutation and a new sample.      *)
ProposeSteady ==
  /\ MayPropose
  /\ ~ (Len(population) < population_size)
  /\ IF Len(population) # population_size
     THEN /\ call' = Call("propose", "-", {}, 0, FALSE, "AssertionError")
          /\ ret' = NoDNA
          /\ parent' = NoDNA
          /\ UNCHANGED << pc, retries, output_dict, population >>
     ELSE \E tournament \in TournamentSamples(population, tournament_size) :
          IF \E i \in tournament : population[i].reward = None
          THEN /\ call' = Call("propose", "-", tournament, 0, FALSE, "AssertionError")
               /\ ret' = NoDNA
               /\ parent' = NoDNA
               /\ UNCHANGED << pc, retries, output_dict, population >>
          ELSE
          \E selected \in Selected(population, tournament) :
          \E r \in RandomDraws :
            /\ parent' = population[selected].dna
            /\ population' = population
            /\ output_dict' = output_dict
            /\ retries' = 0
            /\ IF r < mutation_probability
               THEN /\ pc' = "mutate"
                    /\ ret' = NoDNA
                    /\ call' = Call("propose", "loop", tournament, selected, TRUE, "-")
               ELSE /\ pc' = "idle"
                    /\ \E program_spec \in sample_valid_program_spec :
                         ret' = encode(program_spec)
                    /\ call' = Call("propose", "resample", tournament, selected, TRUE, "-")
  /\ alternating' = (alternating /\ call.op # "propose")
  /\ UNCHANGED << phase, config, ghosts >>

(* One pass of the while-loop of mutate(): the spec _alter_node_idx        *)
(* returns for a sampled target, "IndexError" when a random.choice in it   *)
(* has nothing to choose from.                                             *)
LoopOutcomes ==
  LET program_spec == decode(parent)
      program_lst == program_spec.program_lst
      loss_program == build_program(program_spec)
      targets == sample_node_idx_to_mutate(loss_program)
  IN IF targets = {}
     THEN { [node_idx |-> 0 - 1, error |-> "IndexError", spec |-> program_spec] }
     ELSE UNION {
            LET outs == alter_node_idx_at(program_lst, loss_program, node_idx)
            IN IF outs = {}
               THEN { [node_idx |-> node_idx, error |-> "IndexError",
                       spec |-> program_spec] }
               ELSE { [node_idx |-> node_idx, error |-> "-", spec |-> new_program_spec] :
                        new_program_spec \in outs } :
            node_idx \in targets }

(* Variant of the validity test of the loop that never rejects. *)
ContinueNever(valid) == FALSE

(* if not valid: continue *)
Continue(valid) == ~ valid

(* The pass ends in `continue`: build_program rejects the spliced spec.    *)
(* The code keeps no count of the passes and the loop has no exit but a    *)
(* valid program or an exception; retries counts the rejected passes       *)
(* modulo MaxRetries + 1.                                                  *)
MutateRetry ==
  /\ pc = "mutate"
  /\ \E o \in LoopOutcomes :
       /\ o.error = "-"
       /\ Continue(build_program(o.spec).valid)
       /\ call' = [call EXCEPT !.node_idx = o.node_idx]
  /\ retries' = (retries + 1) % (MaxRetries + 1)
  /\ UNCHANGED << phase, config, population, output_dict, pc, parent, ret, ghosts,
                  alternating >>

(* The pass returns: duplicate check of the valid program, encode. *)
MutateReturn ==
  /\ pc = "mutate"
  /\ \E o \in LoopOutcomes :
       /\ o.error = "-"
       /\ LET new_loss_program == build_program(o.spec)
              cd == check_duplicate(new_loss_program, output_dict)
          IN /\ ~ Continue(new_loss_program.valid)
             /\ output_dict' = cd.output_dict
             /\ IF cd.reward = None
                THEN /\ ret' = NoDNA
                     /\ call' = [call EXCEPT !.path = "point", !.error = "TypeError",
                                             !.node_idx = o.node_idx,
                                             !.checked = << cd.hash, cd.duplicate, cd.reward >>]
                ELSE /\ ret' = encode(ProgramSpec(o.spec.program_lst, cd.duplicate,
                                                  cd.reward, o.spec.loss_weight, cd.hash))
                     /\ call' = [call EXCEPT !.path = "point", !.node_idx = o.node_idx,
                                             !.checked = << cd.hash, cd.duplicate, cd.reward >>]
  /\ pc' = "idle"
  /\ UNCHANGED << phase, config, population, parent, ghosts, alternating, retries >>

(* The pass raises: a random.choice over an empty list. *)
MutateError ==
  /\ pc = "mutate"
  /\ \E o \in LoopOutcomes :
       /\ o.error # "-"
       /\ call' = [call EXCEPT !.path = "point", !.error = o.error,
                               !.node_idx = o.node_idx]
  /\ ret' = NoDNA
  /\ pc' = "idle"
  /\ UNCHANGED << phase, config, population, output_dict, parent, ghosts,
                  alternating, retries >>

(* The genomes the warm-up branch of propose(), and the else-branch of     *)
(* mutate(), may return: sample_valid_program_spec is handed no generator  *)
(* and draws from the module-level ones.                                   *)
FreshReturns == { encode(program_spec) : program_spec \in sample_valid_program_spec }

(* The genome a returning pass of the loop of mutate() encodes for the     *)
(* outcome o of _alter_node_idx.                                           *)
PointDNA(o) ==
  LET cd == check_duplicate(build_program(o.spec), output_dict)
  IN encode(ProgramSpec(o.spec.program_lst, cd.duplicate, cd.reward,
                        o.spec.loss_weight, cd.hash))

(* The genomes mutate(parent) may return: random.random(), the             *)
(* random.choice calls of _sample_node_idx_to_mutate, _alter_node_idx and  *)
(* _alter_continuous, and the sampler all draw from the module-level       *)
(* generators, whatever the seed of the controller.                        *)
MutateReturns ==
  FreshReturns \cup
  { PointDNA(o) :
      o \in { x \in LoopOutcomes :
                /\ x.error = "-"
                /\ ~ Continue(build_program(x.spec).valid)
                /\ check_duplicate(build_program(x.spec), output_dict).reward # None } }

Propose == ProposeWarmup \/ ProposeSteady \/ MutateRetry \/ MutateReturn \/ MutateError

Next ==
  \/ Setup
  \/ ProposeWarmup
  \/ ProposeSteady
  \/ MutateRetry
  \/ MutateReturn
  \/ MutateError
  \/ \E reward \in Rewards \cup {None} : ret # NoDNA /\ Feedback(ret, reward)

Spec == Init /\ [][Next]_vars

(* The configurations explored for the claims about mutate(): the search   *)
(* space with one operator slot and two input nodes with loss-weight       *)
(* adjustment enabled, and the same space with a single input node, with   *)
(* and without the slot frozen, with and without loss-weight adjustment.   *)
InitOneSlotAdjust ==
  /\ population_size = 2
  /\ tournament_size = 2
  /\ input_nodes = << F, F >>
  /\ program_length = 2
  /\ num_freeze_ops = 0
  /\ adjust_loss_weight = TRUE

InitOneInput ==
  /\ population_size = 2
  /\ tournament_size = 2
  /\ input_nodes = << F >>
  /\ program_length = 2
  /\ num_freeze_ops \in {0, 1}
  /\ adjust_loss_weight \in BOOLEAN

MutateInit ==
  /\ InitOneSlotAdjust \/ InitOneInput
  /\ Constructed

MutateSpec == MutateInit /\ [][Next]_vars

----------------------------------------------------------------------------
(* Properties *)

Ready == phase = "ready"

Min(a, b) == IF a < b THEN a ELSE b

(* C1: in every state of a set-up controller the population holds at most *)
(* population_size individuals, in particular after every feedback().      *)
PopulationBounded ==
  Ready => Len(population) <= population_size

(* A feedback() has returned after evicting from a full population. *)
PopulationBoundedWitness ==
  /\ Ready
  /\ call.op = "feedback"
  /\ call.error = "-"
  /\ ncreated > population_size
  /\ Len(population) = population_size

(* C2: eviction is by insertion age. The population is, oldest first, the  *)
(* last min(n, population_size) of the n individuals created so far, in    *)
(* the order of their feedback() calls, whatever their rewards; the newest *)
(* is the one the last successful feedback() created from its arguments;   *)
(* and a step changes no individual that stays in the population.          *)
FifoOrder ==
  Ready =>
    /\ Len(population) = Min(ncreated, population_size)
    /\ \A i \in 1..Len(population) :
         population[i].born = ncreated - Len(population) + i
    /\ (call.op = "feedback" /\ call.error = "-") =>
         /\ population[Len(population)].dna = call.dna
         /\ population[Len(population)].reward = call.reward

SurvivorsKept ==
  Ready =>
    \A i \in 1..Len(population) : \A j \in 1..Len(population') :
      population[i].born = population'[j].born => population[i] = population'[j]

FifoEviction == [] FifoOrder /\ [][SurvivorsKept]_vars

(* The first individual (its dna a fresh sample, so filed under the        *)
(* default fingerprint) has been evicted although its reward was strictly  *)
(* higher than that of every individual that stays.                        *)
FifoEvictionWitness ==
  /\ Ready
  /\ call.op = "feedback"
  /\ ncreated > population_size
  /\ nfeedback = ncreated
  /\ DefaultHashOutput \in DOMAIN fed_first
  /\ \A i \in 1..Len(population) :
       population[i].reward < fed_first[DefaultHashOutput]

(* C3: WARMUP ends exactly at the feedback() that fills the population,    *)
(* and STEADY is never left: once the population holds population_size     *)
(* individuals it does so after every further step, so the assertion of    *)
(* propose() on a full population never fails.                             *)
SteadyStays ==
  (Ready /\ Len(population) = population_size) =>
    Len(population') = population_size

SteadyEntered ==
  (Ready /\ Len(population) < population_size
         /\ Len(population') = population_size) =>
    (call'.op = "feedback" /\ ncreated' = population_size)

ProposeAssertionHolds ==
  call.op = "propose" => call.error # "AssertionError"

SteadyForever ==
  [] ProposeAssertionHolds /\ [][SteadyStays /\ SteadyEntered]_vars

(* A propose() on a full population after an eviction has taken place. *)
SteadyForeverWitness ==
  /\ Ready
  /\ call.op = "propose"
  /\ call.mutator
  /\ ncreated > population_size
  /\ Len(population) = population_size

(* C4: a propose() on a population that is not full returns a fresh valid  *)
(* sample, with no tournament and no call of the mutator; a propose() on a *)
(* full population draws a tournament and goes through the mutator. When   *)
(* propose() and feedback() alternate strictly, proposal number k is a     *)
(* fresh sample exactly when k <= population_size.                         *)
ProposePaths ==
  call.op = "propose" =>
    /\ IF Len(population) < population_size
       THEN /\ call.path = "fresh"
            /\ ~ call.mutator
            /\ call.tournament = {}
            /\ ret \in { encode(program_spec) :
                           program_spec \in sample_valid_program_spec }
       ELSE /\ call.mutator
            /\ call.path \in {"loop", "resample", "point"}
            /\ Cardinality(call.tournament) = tournament_size
    /\ alternating => (call.path = "fresh" <=> nfeedback + 1 <= population_size)

(* Under strict alternation, a proposal after the first population_size    *)
(* ones has come back from a point mutation.                               *)
ProposePathsWitness ==
  /\ alternating
  /\ call.op = "propose"
  /\ call.path = "point"
  /\ call.error = "-"
  /\ nfeedback > population_size

(* C5: the parent handed to the mutator is the dna of a population member  *)
(* that belongs to a sample of tournament_size distinct members and whose  *)
(* reward no sampled member exceeds.                                       *)
TournamentMax ==
  (call.op = "propose" /\ call.mutator) =>
    /\ call.tournament \subseteq 1..Len(population)
    /\ Cardinality(call.tournament) = tournament_size
    /\ call.selected \in call.tournament
    /\ \A j \in call.tournament :
         population[j].reward <= population[call.selected].reward
    /\ parent = population[call.selected].dna

(* The winner beats another sampled member, and a member of the           *)
(* population with the winner's reward was left out of the sample.         *)
TournamentMaxWitness ==
  /\ call.op = "propose"
  /\ call.mutator
  /\ \E j \in call.tournament :
       population[j].reward < population[call.selected].reward
  /\ \E k \in (1..Len(population)) \ call.tournament :
       population[k].reward = population[call.selected].reward

(* C6: setup() fails exactly when tournament_size < 2 or population_size < *)
(* tournament_size; a controller that serves propose() or feedback() has   *)
(* passed both checks, and a successful setup() leaves an empty            *)
(* population.                                                             *)
ConfigChecked ==
  /\ phase = "ready" => (tournament_size >= 2 /\ population_size >= tournament_size)
  /\ phase = "failed" =>
       /\ tournament_size < 2 \/ population_size < tournament_size
       /\ call.op = "setup"
       /\ call.error = "AssertionError"
  /\ call.op \in {"propose", "feedback"} => phase = "ready"
  /\ (call.op = "setup" /\ phase = "ready") => population = << >>

(* setup() has failed on a tournament larger than the population. *)
ConfigCheckedWitness ==
  /\ phase = "failed"
  /\ tournament_size >= 2
  /\ population_size < tournament_size

(* C7: every individual of the population carries a reward; individuals    *)
(* are created by feedback() only; a feedback() with a missing reward      *)
(* fails in the constructor and leaves the population as it was; and the   *)
(* assertions of propose() never fire.                                     *)
RewardsPresent ==
  /\ Ready => \A i \in 1..Len(population) : population[i].reward # None
  /\ (call.op = "feedback" /\ call.reward = None) => call.error = "AssertionError"
  /\ call.op = "propose" => call.error # "AssertionError"

MissingRewardRejected ==
  /\ ncreated' # ncreated => call'.op = "feedback"
  /\ (Ready /\ nfeedback' = nfeedback + 1 /\ call'.reward = None) =>
       (population' = population /\ ncreated' = ncreated)

RewardAlwaysPresent == [] RewardsPresent /\ [][MissingRewardRejected]_vars

(* A feedback() with a missing reward has failed on a full population. *)
RewardAlwaysPresentWitness ==
  /\ Ready
  /\ call.op = "feedback"
  /\ call.reward = None
  /\ Len(population) = population_size

(* C8: the tracker only grows and the last write wins. Its keys are        *)
(* exactly the fingerprints embedded in the dnas fed back so far, each     *)
(* mapped to the reward of the latest feedback() with that fingerprint; a  *)
(* key keeps its entry until a feedback() with its fingerprint, eviction   *)
(* of the individual included; and a feedback() that overwrites an entry   *)
(* with a reward succeeds.                                                 *)
TrackerContents ==
  /\ DOMAIN output_dict = DOMAIN fed_last
  /\ \A k \in DOMAIN output_dict : output_dict[k] = fed_last[k]
  /\ call.op = "feedback" =>
       /\ output_dict[EmbeddedHash(call.dna)] = call.reward
       /\ call.reward # None => call.error = "-"

TrackerGrows ==
  \A k \in DOMAIN output_dict :
    /\ k \in DOMAIN output_dict'
    /\ output_dict'[k] # output_dict[k] =>
         (call'.op = "feedback" /\ k = EmbeddedHash(call'.dna)
            /\ nfeedback' = nfeedback + 1)

TrackerLastWriteWins == [] TrackerContents /\ [][TrackerGrows]_vars

(* A key that was overwritten with another reward is still in the tracker  *)
(* although no individual of the population carries its fingerprint.       *)
TrackerLastWriteWinsWitness ==
  /\ Ready
  /\ Cardinality(DOMAIN output_dict) >= 2
  /\ \E k \in DOMAIN output_dict :
       /\ fed_first[k] # output_dict[k]
       /\ \A i \in 1..Len(population) : EmbeddedHash(population[i].dna) # k

(* Two individuals of the population whose dnas embed fingerprint h and    *)
(* differ in program_lst.                                                  *)
TwoProgramsWith(h) ==
  \E i, j \in 1..Len(population) :
    /\ EmbeddedHash(population[i].dna) = h
    /\ EmbeddedHash(population[j].dna) = h
    /\ decode(population[i].dna).program_lst # decode(population[j].dna).program_lst

(* C9 as claimed: _check_duplicate answers (fingerprint, False, 0) for a   *)
(* fingerprint never recorded, and once two structurally different         *)
(* programs with the fingerprint have been fed back it answers a duplicate *)
(* with the reward recorded for the first of them.                         *)
DuplicateReportsFirst ==
  (call.op = "propose" /\ call.checked # << >>) =>
    LET h == call.checked[1]
    IN IF h \notin DOMAIN fed_first
       THEN call.checked = << h, FALSE, 0 >>
       ELSE TwoProgramsWith(h) => call.checked = << h, TRUE, fed_first[h] >>

(* C9: _check_duplicate answers (fingerprint, False, 0) for a fingerprint  *)
(* never recorded, and for a fingerprint that has been fed back it answers *)
(* a duplicate with the reward of the latest feedback() with that          *)
(* fingerprint.                                                            *)
DuplicateReportsLatest ==
  (call.op = "propose" /\ call.checked # << >>) =>
    LET h == call.checked[1]
    IN IF h \notin DOMAIN fed_last
       THEN call.checked = << h, FALSE, 0 >>
       ELSE call.checked = << h, TRUE, fed_last[h] >>

(* A duplicate is reported after two structurally different programs with  *)
(* its fingerprint were fed back with different rewards.                   *)
DuplicateReportsLatestWitness ==
  /\ call.op = "propose"
  /\ call.checked # << >>
  /\ call.checked[2]
  /\ TwoProgramsWith(call.checked[1])
  /\ fed_first[call.checked[1]] # fed_last[call.checked[1]]

(* C10: no step of propose() or mutate() changes the population or the     *)
(* tracker, on any path; within a set-up controller only feedback() does.  *)
ProposeFrame ==
  /\ call'.op = "propose" =>
       (population' = population /\ output_dict' = output_dict)
  /\ (Ready /\ (population' # population \/ output_dict' # output_dict)) =>
       (call'.op = "feedback" /\ nfeedback' = nfeedback + 1)

ProposeHasNoSideEffect == [][ProposeFrame]_vars

(* A point mutation has returned a program whose fingerprint the tracker   *)
(* did not hold, with a tracker that holds other fingerprints.             *)
ProposeHasNoSideEffectWitness ==
  /\ call.op = "propose"
  /\ call.path = "point"
  /\ call.error = "-"
  /\ ~ call.checked[2]
  /\ Cardinality(DOMAIN output_dict) >= 2

(* C11: every genome mutate() returns encodes a program build_program      *)
(* accepts; a pass whose spliced program is rejected returns nothing and   *)
(* raises nothing: the loop goes on with the same parent and samples a     *)
(* target again.                                                           *)
ReturnedValid ==
  (call.op = "propose" /\ call.mutator /\ ret # NoDNA) =>
    build_program(decode(ret)).valid

RejectionRetries ==
  (pc = "mutate" /\ retries' # retries) =>
    /\ pc' = "mutate"
    /\ ret' = NoDNA
    /\ call'.error = "-"
    /\ parent' = parent

MutateReturnsValid == [] ReturnedValid /\ [][RejectionRetries]_vars

(* A point mutation has returned after at least one rejected pass. *)
MutateReturnsValidWitness ==
  /\ call.op = "propose"
  /\ call.path = "point"
  /\ call.error = "-"
  /\ ret # NoDNA
  /\ retries > 0

(* The duplicate metadata of genome dna agrees with the tracker dict: its  *)
(* hash_output is the fingerprint of its own program, its duplicate flag   *)
(* tells whether that fingerprint is recorded, its reward is the recorded  *)
(* one (0 when there is none).                                             *)
MetadataAgrees(dna, dict) ==
  LET program_spec == decode(dna)
      fp == compute_hash_output(build_program(program_spec))
  IN /\ program_spec.hash_output = fp
     /\ program_spec.duplicate = (fp \in DOMAIN dict)
     /\ program_spec.reward = IF fp \in DOMAIN dict THEN dict[fp] ELSE 0

(* C12: every genome mutate() returns, by point mutation or by a new       *)
(* sample, carries the duplicate metadata computed against the tracker at  *)
(* the time of the call.                                                   *)
MutateAttachesMetadata ==
  (call.op = "propose" /\ call.mutator /\ call.error = "-" /\ ret # NoDNA) =>
    MetadataAgrees(ret, output_dict)

(* What the call that has just returned may return on a second controller  *)
(* with the same seed, the same search space and the same history: equal   *)
(* population and tracker, and equal draws of self._random, hence the same *)
(* tournament and the same parent.                                         *)
TwinReturns == IF call.mutator THEN MutateReturns ELSE FreshReturns

(* What the model's propose() returns is among them. *)
ReturnAmongTwinReturns ==
  (call.op = "propose" /\ call.error = "-" /\ ret # NoDNA) => ret \in TwinReturns

(* C13: with a configured seed a run is reproducible: a second controller  *)
(* with the same seed, driven by the same calls with the same rewards,     *)
(* returns the same genome from every propose().                           *)
SeededRunReproducible ==
  (call.op = "propose" /\ call.error = "-" /\ ret # NoDNA) =>
    \A dna \in TwinReturns : dna = ret

(* The parent of the call in progress as built by mutate(), the structural *)
(* targets (nodes that are not the loss node) it may sample, and the pairs *)
(* _alter_node_idx may splice in at target node_idx.                       *)
ParentProgram == build_program(decode(parent))

StructuralTargets ==
  { t \in sample_node_idx_to_mutate(ParentProgram) :
      At(ParentProgram.ops_lst, t).op # "LossOpNode" }

SplicedPairs(node_idx) ==
  { o.spec.program_lst[node_idx - Len(input_nodes) + 1] :
      o \in { x \in LoopOutcomes : x.error = "-" /\ x.node_idx = node_idx } }

(* The output dtype inferred for pair c when it stands at node_idx. *)
InferredOdtype(c, node_idx) ==
  OpOdtype(c[1], [j \in 1..Len(c[2]) |-> At(ParentProgram.ops_lst, c[2][j]).odtype])

(* The pairs enumerated for node_idx that pass the precheck. *)
PrecheckedPairs(node_idx) ==
  { c \in { << op_idx, << i >> >> :
              op_idx \in (0..(Len(operators) - 1)) \ {LossOpIdx},
              i \in 0..(Len(PyPrefix(ParentProgram.ops_lst, node_idx - 1)) - 1) } :
      precheck_valid_input(
        c[1], [j \in 1..Len(c[2]) |-> At(ParentProgram.ops_lst, c[2][j]).odtype]) }

(* C14: a pair spliced in at a target that is not a leaf has the output    *)
(* dtype of the node it replaces; at a leaf target every pair passing the  *)
(* precheck may be spliced in, whatever its output dtype.                  *)
TypePreserved ==
  pc = "mutate" =>
    \A t \in StructuralTargets :
      IF t \in find_leaf_nodes(ParentProgram.ops_lst)
      THEN SplicedPairs(t) = PrecheckedPairs(t)
      ELSE \A c \in SplicedPairs(t) :
             InferredOdtype(c, t) = At(ParentProgram.ops_lst, t).odtype

(* A pass has spliced at a target that is not a leaf, where a pair passing *)
(* the precheck with another output dtype was enumerated and left out.     *)
TypePreservedWitness ==
  /\ pc = "mutate"
  /\ retries > 0
  /\ call.node_idx \in StructuralTargets
  /\ call.node_idx \notin find_leaf_nodes(ParentProgram.ops_lst)
  /\ SplicedPairs(call.node_idx) # {}
  /\ \E c \in PrecheckedPairs(call.node_idx) :
       InferredOdtype(c, call.node_idx) # At(ParentProgram.ops_lst, call.node_idx).odtype

(* A point mutation whose target was the loss node has returned. *)
LossWeightReturned ==
  /\ call.op = "propose"
  /\ call.path = "point"
  /\ call.error = "-"
  /\ ret # NoDNA
  /\ At(ParentProgram.ops_lst, call.node_idx).op = "LossOpNode"

(* On that path the program_lst is the parent's and the loss weight is one *)
(* of the loss node's loss_weights.                                        *)
LossWeightOnly ==
  /\ decode(ret).program_lst = decode(parent).program_lst
  /\ decode(ret).loss_weight \in loss_weights

(* C15 as stated: mutate() returns at once from the loss-weight path, with *)
(* no rebuild and no duplicate check between the choice and the return, so *)
(* the genome carries the metadata _alter_continuous left in the spec.     *)
LossWeightPathBypassesChecks ==
  LossWeightReturned =>
    /\ LossWeightOnly
    /\ call.checked = << >>
    /\ decode(ret).hash_output = DefaultHashOutput
    /\ decode(ret).duplicate = FALSE

(* C15, amended: the loss-weight path changes the loss weight only, and    *)
(* goes through the same rebuild, validity test and duplicate check as a   *)
(* structural mutation before it returns: the genome is valid and carries  *)
(* the fingerprint, flag and reward of the duplicate check.                *)
LossWeightPathIsChecked ==
  LossWeightReturned =>
    /\ LossWeightOnly
    /\ build_program(decode(ret)).valid
    /\ call.checked = << decode(ret).hash_output, decode(ret).duplicate,
                         decode(ret).reward >>
    /\ MetadataAgrees(ret, output_dict)

(* A loss-weight mutation has returned a weight other than the parent's,   *)
(* and the duplicate check found its fingerprint in the tracker.           *)
LossWeightPathIsCheckedWitness ==
  /\ LossWeightReturned
  /\ decode(ret).loss_weight # decode(parent).loss_weight
  /\ decode(ret).duplicate
  /\ decode(ret).hash_output # DefaultHashOutput

(* The passes of the loop that end the call in progress: those that raise  *)
(* and those whose spliced program the builder accepts.                    *)
EndingPasses ==
  { o \in LoopOutcomes : o.error # "-" \/ ~ Continue(build_program(o.spec).valid) }

(* C16: mutate() terminates: the retry loop is bounded, so a call in the   *)
(* loop ends after finitely many passes, by returning or by raising. Every *)
(* pass of a call starts from the same parent and the same state, so the   *)
(* call can end only if some pass of it does: it never is in the loop with *)
(* every pass rejected.                                                    *)
MutateTerminates == pc = "mutate" => EndingPasses # {}

(* The last pass of the call in progress chose a structural target for     *)
(* which no pair passes the precheck and dtype checks.                     *)
Exhausted ==
  /\ call.op = "propose"
  /\ call.mutator
  /\ call.node_idx >= 0
  /\ At(ParentProgram.ops_lst, call.node_idx).op # "LossOpNode"
  /\ valid_lst(ParentProgram, call.node_idx) = {}

ExhaustedRaises == Exhausted => (pc = "idle" /\ call.error = "IndexError" /\ ret = NoDNA)

FailedCallFrame ==
  (pc = "mutate" /\ call'.error # "-") =>
    /\ population' = population
    /\ output_dict' = output_dict
    /\ ret' = NoDNA

(* C17: when no pair passes the checks for the chosen structural target,   *)
(* mutate() ends in a fatal error: it returns no genome, and the failed    *)
(* call leaves the population and the tracker as they were.                *)
ExhaustedIsFatal == [] ExhaustedRaises /\ [][FailedCallFrame]_vars

(* Such a call has failed, with a full population and a tracker holding    *)
(* entries.                                                                *)
ExhaustedIsFatalWitness ==
  /\ Exhausted
  /\ call.error = "IndexError"
  /\ Len(population) = population_size
  /\ DOMAIN output_dict # {}

(* The input indices over which _alter_node_idx enumerates the candidate   *)
(* pairs for target node_idx.                                              *)
EnumeratedInputIdxs(node_idx) ==
  LET all_inputs == PyPrefix(ParentProgram.ops_lst, node_idx - 1)
  IN UNION { { input_idxs[j] : j \in 1..Len(input_idxs) } :
             input_idxs \in UNION { get_possible_input_idxs(op_idx, Len(all_inputs)) :
                                      op_idx \in (0..(Len(operators) - 1)) \ {LossOpIdx} } }

(* C18: for a structural target t the candidate input indices range over   *)
(* every node before the target, 0..t-1, and over no index from t on.      *)
CandidatesCoverPredecessors ==
  pc = "mutate" =>
    \A t \in StructuralTargets : EnumeratedInputIdxs(t) = 0..(t - 1)

(* A point mutation has returned. *)
PointReturned ==
  /\ call.op = "propose"
  /\ call.path = "point"
  /\ call.error = "-"
  /\ ret # NoDNA

(* The target of every pass is a slot that is neither an input node nor    *)
(* frozen, and not the loss slot unless the loss weight may be adjusted.   *)
TargetAllowed ==
  (call.op = "propose" /\ call.node_idx >= 0) =>
    /\ call.node_idx >= Len(input_nodes) + num_freeze_ops
    /\ call.node_idx <= Len(input_nodes) + program_length - 1
    /\ (~ adjust_loss_weight) => call.node_idx # Len(input_nodes) + program_length - 1

(* C19: a point mutation changes at most the entry of program_lst at its   *)
(* target, which is never an input, never frozen, and never the loss slot  *)
(* when the loss weight is not adjustable; the first num_freeze_ops        *)
(* entries of the offspring are the parent's.                              *)
PointMutationFrame ==
  /\ TargetAllowed
  /\ PointReturned =>
       /\ Len(decode(ret).program_lst) = Len(decode(parent).program_lst)
       /\ \A i \in 1..Len(decode(parent).program_lst) :
            (i # call.node_idx - Len(input_nodes) + 1) =>
              decode(ret).program_lst[i] = decode(parent).program_lst[i]
       /\ \A i \in 1..num_freeze_ops :
            decode(ret).program_lst[i] = decode(parent).program_lst[i]

(* A structural mutation has returned a program_lst that differs from the  *)
(* parent's at the target, in a program with another entry to keep.        *)
PointMutationFrameWitness ==
  /\ PointReturned
  /\ Len(decode(parent).program_lst) >= 2
  /\ decode(ret).program_lst[call.node_idx - Len(input_nodes) + 1]
       # decode(parent).program_lst[call.node_idx - Len(input_nodes) + 1]

(* C20: a structural point mutation (its target is not the loss node)      *)
(* returns a genome with the loss weight of the parent.                    *)
StructuralKeepsLossWeight ==
  (PointReturned /\ At(ParentProgram.ops_lst, call.node_idx).op # "LossOpNode") =>
    decode(ret).loss_weight = decode(parent).loss_weight

====
